---- MODULE Spec2Model ----
(***************************************************************************)
(* Machine-control state machine of the CNC REST service: CNCController    *)
(* (app/core/controller.py), driven through CNCService and the FastAPI     *)
(* route handlers, against the LinuxCNC machine interface (command, stat,  *)
(* error_channel).  One controller step is one call on the machine         *)
(* interface; the machine (task state, interpreter, homed flags, error     *)
(* queue, NML link) moves on its own between two such calls.               *)
(***************************************************************************)
EXTENDS Integers, Sequences, FiniteSets, TLC

VARIABLES
    mTask,        \* machine: task state (ESTOP, OFF, ON)
    mInterp,      \* machine: interpreter state (IDLE, RUNNING)
    mRunOwn,      \* machine: the running MDI command was dispatched by the current operation
    mHomed,       \* machine: homed attribute of stat, [kind, flags]
    mMask,        \* machine: axis_mask attribute of stat, [has, v]
    mErr,         \* machine: error channel, a queue of [own, code]
    linkOk,       \* machine: stat.poll() succeeds
    status,       \* controller: self.status, the snapshot of the last successful poll
    pc,           \* position of the running handler, "idle" when the event loop is free
    op,           \* the request being (or last) handled
    attempt,      \* _poll_status: loop variable
    num_joints,   \* home_all_axes: local
    joint_index,  \* home_all_axes: loop variable
    gcode,        \* _execute_move: local, the words built by _build_gcode_command
    mdi_text,     \* machine: texts received through command.mdi in this operation
    result,       \* outcome of the handler: [kind, err, gcode]
    log,          \* machine-interface calls made by the running (or last) handler
    pendingEstop, \* an e-stop request has reached the server and its handler has not started
    script,       \* requests the client still sends, in order (scenario runs)
    outcomes,     \* result kinds of the finished scripted requests
    cnc_service,  \* dependencies: the module global _cnc_service, 0 for None
    controllers,  \* number of CNCController objects constructed by the process
    dep           \* get_cnc_service: position and locals of each request's call

mvars == <<mTask, mInterp, mRunOwn, mHomed, mMask, mErr, linkOk>>
cvars == <<status, pc, op, attempt, num_joints, joint_index, gcode, mdi_text, result, log>>
dvars == <<cnc_service, controllers, dep>>
svars == <<pendingEstop, script, outcomes, dvars>>
vars == <<mvars, cvars, svars>>

----------------------------------------------------------------------------
(* Bounds of the model *)

MaxErrors == 2      \* capacity of the error queue
HomedLen == 2       \* length of the homed list of the machines of Spec
MaxWideLen == 4     \* longest homed list of the machines of SpecGate
MaxMask == 7        \* largest axis_mask of the machines of SpecGate
MaxClients == 3     \* requests that resolve their service dependency in SpecDep

(* Program constants *)

(* a _poll_status that gives up one attempt earlier *)
MaxRetriesShort == 3 - 1

max_retries == 3
DefaultJointsVerify == 3
DefaultJointsHome == 3
default_feed_rate == 1000
max_coordinate == 10000
min_feed_rate == 1
max_feed_rate == 10000

TaskStates == {"ESTOP", "OFF", "ON"}
ErrCodes == {11, 13}
NoneVal == <<>>

----------------------------------------------------------------------------
(* Pure helpers *)

Min(a, b) == IF a < b THEN a ELSE b
Last(s) == s[Len(s)]
Take(s, n) == SubSeq(s, 1, Min(n, Len(s)))
All(s) == \A i \in DOMAIN s : s[i]

RECURSIVE PopCount(_)
PopCount(m) == IF m <= 0 THEN 0 ELSE (m % 2) + PopCount(m \div 2)

Snapshot == [task |-> mTask, interp |-> mInterp, homed |-> mHomed, mask |-> mMask]

Unpolled == [task |-> "NONE", interp |-> "NONE",
             homed |-> [kind |-> "absent", flags |-> <<>>],
             mask |-> [has |-> FALSE, v |-> 0]]

(* getattr(self.status, "axis_mask", 0) *)
AxisMaskOf(s) == IF s.mask.has THEN s.mask.v ELSE 0

RECURSIVE BitLength(_)
BitLength(m) == IF m <= 0 THEN 0 ELSE 1 + BitLength(m \div 2)

(* a homed check that counts joints up to the highest set bit of the mask *)
VerifyNumJointsToHighestBit(s) ==
    IF AxisMaskOf(s) > 0 THEN BitLength(AxisMaskOf(s)) ELSE DefaultJointsVerify

(* the joint count of a controller that ignores the axis mask *)
VerifyNumJointsIgnoresMask(s) == DefaultJointsVerify

(* _verify_machine_homed: num_joints *)
VerifyNumJoints(s) ==
    IF AxisMaskOf(s) > 0 THEN PopCount(AxisMaskOf(s)) ELSE DefaultJointsVerify

(* a homing that always takes the default joint count *)
HomeNumJointsDefault(s) == DefaultJointsHome

(* home_all_axes: num_joints *)
HomeNumJoints(s) ==
    IF AxisMaskOf(s) > 0 THEN PopCount(AxisMaskOf(s)) ELSE DefaultJointsHome

(* a homed check that slices the list without testing its length *)
HomedCheckSliceOnly(s) ==
    /\ s.homed.kind = "seq"
    /\ All(Take(s.homed.flags, VerifyNumJoints(s)))

(* a homed check that forgets all(homed[:num_joints]) *)
HomedCheckLengthOnly(s) ==
    /\ s.homed.kind = "seq"
    /\ Len(s.homed.flags) >= VerifyNumJoints(s)

(* _verify_machine_homed: TRUE when no MachineNotHomedException is raised *)
HomedCheckPasses(s) ==
    /\ s.homed.kind = "seq"
    /\ Len(s.homed.flags) >= VerifyNumJoints(s)
    /\ All(Take(s.homed.flags, VerifyNumJoints(s)))

(* a homing wait that is content with any non-empty homed list *)
HomingCompleteAnyFlags(s, n) ==
    /\ s.homed.kind = "seq"
    /\ s.homed.flags # <<>>

(* _wait_for_homing_complete: the condition of its break *)
HomingComplete(s, n) ==
    /\ s.homed.kind = "seq"
    /\ s.homed.flags # <<>>
    /\ All(IF n > 0 THEN Take(s.homed.flags, n) ELSE s.homed.flags)

(* f"{float(v):.4f}": the value in ten-thousandths *)
Fmt4(v) == v * 10000

Word(letter, val) == [letter |-> letter, val |-> val]

(* a builder that appends the feed word to rapid commands too *)
build_gcode_always_feed(x, y, z, feed_rate, rapid, absolute) ==
    <<Word("G", 21)>>
    \o <<IF absolute THEN Word("G", 90) ELSE Word("G", 91)>>
    \o <<IF rapid THEN Word("G", 0) ELSE Word("G", 1)>>
    \o (IF x # NoneVal THEN <<Word("X", Fmt4(x[1]))>> ELSE <<>>)
    \o (IF y # NoneVal THEN <<Word("Y", Fmt4(y[1]))>> ELSE <<>>)
    \o (IF z # NoneVal THEN <<Word("Z", Fmt4(z[1]))>> ELSE <<>>)
    \o <<Word("F", Fmt4(feed_rate))>>

(* _build_gcode_command *)
build_gcode_command(x, y, z, feed_rate, rapid, absolute) ==
    <<Word("G", 21)>>
    \o <<IF absolute THEN Word("G", 90) ELSE Word("G", 91)>>
    \o <<IF rapid THEN Word("G", 0) ELSE Word("G", 1)>>
    \o (IF x # NoneVal THEN <<Word("X", Fmt4(x[1]))>> ELSE <<>>)
    \o (IF y # NoneVal THEN <<Word("Y", Fmt4(y[1]))>> ELSE <<>>)
    \o (IF z # NoneVal THEN <<Word("Z", Fmt4(z[1]))>> ELSE <<>>)
    \o (IF ~rapid THEN <<Word("F", Fmt4(feed_rate))>> ELSE <<>>)

----------------------------------------------------------------------------
(* Requests *)

Req(kind, absolute, rapid, wait, x, y, z) ==
    [kind |-> kind, absolute |-> absolute, rapid |-> rapid, wait |-> wait,
     x |-> x, y |-> y, z |-> z, feed |-> default_feed_rate]

Plain(kind) == Req(kind, FALSE, FALSE, FALSE, NoneVal, NoneVal, NoneVal)

MoveRequests ==
    {Req("move", TRUE, FALSE, w, <<10>>, NoneVal, NoneVal) : w \in BOOLEAN}
    \cup {Req("move", FALSE, TRUE, w, <<-5>>, NoneVal, NoneVal) : w \in BOOLEAN}

HomeRequests == {Req("home", FALSE, FALSE, w, NoneVal, NoneVal, NoneVal) : w \in BOOLEAN}

OtherRequests ==
    {Plain(k) : k \in {"set_power_on", "set_power_off", "reset_estop",
                       "get_position", "get_status"}}

(* moves over every combination of supplied axes, motion mode, positioning   *)
(* mode and wait flag, with values inside and outside the validated ranges    *)
WideMoveRequests ==
    {[Req("move", a, r, w, x, y, z) EXCEPT !.feed = f] :
        a \in BOOLEAN, r \in BOOLEAN, w \in BOOLEAN,
        x \in {NoneVal, <<10>>, <<max_coordinate + 1>>},
        y \in {NoneVal, <<-5>>},
        z \in {NoneVal, <<0>>},
        f \in {min_feed_rate - 1, min_feed_rate, default_feed_rate, max_feed_rate + 1}}

(* MoveRequest.validate_coordinates *)
validate_coordinates(v) ==
    v = NoneVal \/ ~(v[1] < -max_coordinate \/ v[1] > max_coordinate)

(* feed_rate: Field(1000.0, ge=1.0, le=10000.0) *)
FeedRateValid(f) == f >= min_feed_rate /\ f <= max_feed_rate

(* MoveRequest: the body of POST /motion/absolute *)
MoveRequestValid(req) ==
    /\ FeedRateValid(req.feed)
    /\ validate_coordinates(req.x)
    /\ validate_coordinates(req.y)
    /\ validate_coordinates(req.z)

(* RelativeMoveRequest: the body of POST /motion/relative *)
RelativeMoveRequestValid(req) == FeedRateValid(req.feed)

(* the validation of the request body, done before the route handler is called *)
RequestValid(req) ==
    IF req.kind # "move" THEN TRUE
    ELSE IF req.absolute THEN MoveRequestValid(req)
    ELSE RelativeMoveRequestValid(req)

EstopRequest == Plain("trigger_estop")

NoRequest == Plain("none")

NoResult == [kind |-> "none", err |-> <<>>, gcode |-> <<>>]
Outcome(kind) == [kind |-> kind, err |-> <<>>, gcode |-> <<>>]

----------------------------------------------------------------------------
(* The machine interface (LinuxCNC), as the controller calls it *)

(* The task state after the machine handled command.state(target); took is    *)
(* FALSE when the machine did not act on it (external e-stop input still      *)
(* asserted, drive fault, wait_complete returning on its timeout).             *)
TaskAfter(target, took) ==
    IF ~took THEN mTask
    ELSE CASE target = "ESTOP" -> "ESTOP"
           [] target = "ESTOP_RESET" -> IF mTask = "ESTOP" THEN "OFF" ELSE mTask
           [] target = "ON" -> IF mTask = "OFF" THEN "ON" ELSE mTask
           [] target = "OFF" -> IF mTask = "ON" THEN "OFF" ELSE mTask

(* command.wait_complete() after command.state(target) *)
AckState(target, took) ==
    /\ mTask' = TaskAfter(target, took)
    /\ mInterp' = IF TaskAfter(target, took) = "ON" THEN mInterp ELSE "IDLE"
    /\ mRunOwn' = IF TaskAfter(target, took) = "ON" THEN mRunOwn ELSE FALSE
    /\ UNCHANGED <<mHomed, mMask, mErr, linkOk>>

(* command.wait_complete() after command.mdi(text): the interpreter starts the *)
(* command ("run"), has already finished it ("done"), or refuses it and        *)
(* reports an operator error ("reject").                                       *)
AckMdi(outcome, code) ==
    CASE outcome = "run" /\ mTask = "ON" ->
             /\ mInterp' = "RUNNING"
             /\ mRunOwn' = (mInterp = "IDLE" \/ mRunOwn)
             /\ UNCHANGED <<mTask, mHomed, mMask, mErr, linkOk>>
      [] outcome = "reject" /\ Len(mErr) < MaxErrors ->
             /\ mErr' = Append(mErr, [own |-> TRUE, code |-> code])
             /\ UNCHANGED <<mTask, mInterp, mRunOwn, mHomed, mMask, linkOk>>
      [] OTHER -> UNCHANGED mvars

(* command.home(j): the joint loses its homed flag and starts its homing move *)
HomeJoint(j) ==
    /\ mHomed' = IF mHomed.kind = "seq" /\ j + 1 \in DOMAIN mHomed.flags /\ mTask = "ON"
                 THEN [mHomed EXCEPT !.flags[j + 1] = FALSE]
                 ELSE mHomed
    /\ UNCHANGED <<mTask, mInterp, mRunOwn, mMask, mErr, linkOk>>

----------------------------------------------------------------------------
(* Controller helpers *)

WaitPcs == {"wi_poll", "wh_poll"}

PollPcs == {"eo_poll", "eo_repoll", "vh_poll", "wi_poll", "hm_poll", "wh_poll",
            "on_poll", "gp_poll", "gs_poll", "gs_poll2"}

Call(entry, next) ==
    /\ log' = Append(log, entry)
    /\ pc' = next

(* the polls of one wait loop are logged once *)
LogPoll ==
    IF pc \in WaitPcs /\ log # <<>> /\ Last(log) = "poll" THEN log ELSE Append(log, "poll")

(* an _ensure_machine_on that swallows the failed poll and goes on *)
AfterExhaustionSwallowed(p) == IF p = "eo_poll" THEN "eo_on" ELSE "idle"

(* _poll_status: the raise after the last attempt ends the handler *)
AfterExhaustion(p) == "idle"

(* _poll_status, one attempt per step; next and res are what the caller does  *)
(* with the snapshot of a successful attempt.                                  *)
poll_status(next, res) ==
    IF linkOk
    THEN /\ status' = Snapshot
         /\ attempt' = 0
         /\ pc' = next
         /\ result' = res
         /\ log' = LogPoll
    ELSE IF attempt < max_retries - 1
    THEN /\ attempt' = attempt + 1
         /\ UNCHANGED <<status, pc, result, log>>
    ELSE /\ attempt' = 0
         /\ pc' = AfterExhaustion(pc)
         /\ result' = Outcome("Connection")
         /\ log' = Append(log, "poll_failed")
         /\ UNCHANGED status

(* _drain_error_messages *)
drain_error_messages == mErr' = <<>>

(* bookkeeping of the scripted client *)
Record ==
    /\ outcomes' = IF script.on /\ pc' = "idle" THEN Append(outcomes, result'.kind)
                   ELSE outcomes
    /\ UNCHANGED <<pendingEstop, script, dvars>>

(* a move that goes from ensure-on straight to the MDI mode switch *)
AfterEnsureSkipsHomedCheck == IF op.kind = "move" THEN "md_mode" ELSE "hm_mode"

AfterEnsure == IF op.kind = "move" THEN "vh_poll" ELSE "hm_mode"

----------------------------------------------------------------------------
(* Controller operations *)

(* an ensure-on that dispatches ON whatever the first poll shows *)
AfterFirstPollAlwaysOn(s) == IF s.task = "ESTOP" THEN "eo_reset" ELSE "eo_on"

(* _ensure_machine_on: what follows its first poll *)
AfterFirstPoll(s) ==
    IF s.task = "ESTOP" THEN "eo_reset"
    ELSE IF s.task # "ON" THEN "eo_on"
    ELSE AfterEnsure

(* an ensure-on that never dispatches ON after an e-stop reset *)
AfterRepollNeverOn(s) == AfterEnsure

(* _ensure_machine_on: what follows the re-poll after the e-stop reset *)
AfterRepoll(s) == IF s.task # "ON" THEN "eo_on" ELSE AfterEnsure

(* _ensure_machine_on *)
ensure_machine_on(took) ==
    /\ pc \in {"eo_poll", "eo_reset", "eo_reset_wc", "eo_repoll", "eo_on", "eo_on_wc"}
    /\ CASE pc = "eo_poll" ->
              /\ poll_status(AfterFirstPoll(Snapshot), result)
              /\ UNCHANGED mvars
         [] pc = "eo_reset" ->
              /\ Call("state ESTOP_RESET", "eo_reset_wc")
              /\ UNCHANGED <<mvars, status, attempt, result>>
         [] pc = "eo_reset_wc" ->
              /\ AckState("ESTOP_RESET", took)
              /\ Call("wait_complete", "eo_repoll")
              /\ UNCHANGED <<status, attempt, result>>
         [] pc = "eo_repoll" ->
              /\ poll_status(AfterRepoll(Snapshot), result)
              /\ UNCHANGED mvars
         [] pc = "eo_on" ->
              /\ Call("state ON", "eo_on_wc")
              /\ UNCHANGED <<mvars, status, attempt, result>>
         [] pc = "eo_on_wc" ->
              /\ AckState("ON", took)
              /\ Call("wait_complete", AfterEnsure)
              /\ UNCHANGED <<status, attempt, result>>
    /\ UNCHANGED <<op, num_joints, joint_index, gcode, mdi_text>>
    /\ Record

(* _verify_machine_homed *)
verify_machine_homed ==
    /\ pc = "vh_poll"
    /\ poll_status(IF HomedCheckPasses(Snapshot) THEN "md_mode" ELSE "idle",
                   IF HomedCheckPasses(Snapshot) THEN result ELSE Outcome("NotHomed"))
    /\ UNCHANGED <<mvars, op, num_joints, joint_index, gcode, mdi_text>>
    /\ Record

(* a mode switch that does not wait for its acknowledgement *)
switch_to_mdi_mode_unacknowledged ==
    /\ pc = "md_mode"
    /\ Call("mode MDI", "md_mdi")
    /\ UNCHANGED <<mvars, status, op, attempt, num_joints, joint_index, gcode, mdi_text,
                   result>>
    /\ Record

(* _switch_to_mdi_mode *)
switch_to_mdi_mode ==
    /\ pc \in {"md_mode", "md_mode_wc"}
    /\ IF pc = "md_mode" THEN Call("mode MDI", "md_mode_wc")
       ELSE Call("wait_complete", "md_mdi")
    /\ UNCHANGED <<mvars, status, op, attempt, num_joints, joint_index, gcode, mdi_text,
                   result>>
    /\ Record

(* the last drained error instead of the first *)
LastError(errors) == errors[Len(errors)]

(* errors[0] of _execute_mdi_command *)
SurfacedError(errors) == Head(errors)

(* a move that reports success without the text it dispatched *)
MoveOutcomeWithoutText(errors, text) ==
    IF errors # <<>>
    THEN [kind |-> "Motion", err |-> <<Head(errors)>>, gcode |-> text]
    ELSE [kind |-> "ok", err |-> <<>>, gcode |-> <<>>]

(* _execute_mdi_command: what the final drain makes of the move *)
MoveOutcome(errors, text) ==
    IF errors # <<>>
    THEN [kind |-> "Motion", err |-> <<SurfacedError(errors)>>, gcode |-> text]
    ELSE [kind |-> "ok", err |-> <<>>, gcode |-> text]

(* _execute_move, its first statement: the drain of the stale errors *)
execute_move ==
    /\ pc = "mv_drain"
    /\ drain_error_messages
    /\ Call("drain", "eo_poll")
    /\ UNCHANGED <<mTask, mInterp, mRunOwn, mHomed, mMask, linkOk>>
    /\ UNCHANGED <<status, op, attempt, num_joints, joint_index, gcode, mdi_text, result>>
    /\ Record

(* _execute_mdi_command, with the command built by _execute_move just before *)
execute_mdi_command(outcome, code) ==
    /\ pc \in {"md_mdi", "md_mdi_wc", "md_drain"}
    /\ CASE pc = "md_mdi" ->
              /\ gcode' = build_gcode_command(op.x, op.y, op.z, op.feed, op.rapid,
                                              op.absolute)
              /\ mdi_text' = Append(mdi_text, gcode')
              /\ Call("mdi", "md_mdi_wc")
              /\ UNCHANGED <<mvars, result>>
         [] pc = "md_mdi_wc" ->
              /\ AckMdi(outcome, code)
              /\ Call("wait_complete", IF op.wait THEN "wi_poll" ELSE "md_drain")
              /\ UNCHANGED <<gcode, mdi_text, result>>
         [] pc = "md_drain" ->
              /\ drain_error_messages
              /\ Call("drain", "idle")
              /\ result' = MoveOutcome(mErr, gcode)
              /\ gcode' = <<>>
              /\ UNCHANGED <<mTask, mInterp, mRunOwn, mHomed, mMask, linkOk, mdi_text>>
    /\ UNCHANGED <<status, op, attempt, num_joints, joint_index>>
    /\ Record

(* a wait that returns after its first poll whatever the interpreter does *)
InterpreterIdleUnchecked(s) == TRUE

(* a wait that compares the interpreter state with a value never reported *)
InterpreterIdleMiscompared(s) == s.interp = "NONE"

(* _wait_for_interpreter_idle: the condition of its break *)
InterpreterIdle(s) == s.interp = "IDLE"

(* _wait_for_interpreter_idle *)
wait_for_interpreter_idle ==
    /\ pc = "wi_poll"
    /\ poll_status(IF InterpreterIdle(Snapshot) THEN "md_drain" ELSE "wi_poll", result)
    /\ gcode' = IF pc' = "idle" THEN <<>> ELSE gcode
    /\ UNCHANGED <<mvars, op, num_joints, joint_index, mdi_text>>
    /\ Record

HomeCall(j) == <<"home 0", "home 1", "home 2", "home 3", "home 4">>[j + 1]

(* home_all_axes, after _ensure_machine_on *)
home_all_axes ==
    /\ pc \in {"hm_mode", "hm_mode_wc", "hm_poll", "hm_home"}
    /\ CASE pc = "hm_mode" ->
              /\ Call("mode MANUAL", "hm_mode_wc")
              /\ UNCHANGED <<mvars, status, attempt, num_joints, joint_index, result>>
         [] pc = "hm_mode_wc" ->
              /\ Call("wait_complete", "hm_poll")
              /\ UNCHANGED <<mvars, status, attempt, num_joints, joint_index, result>>
         [] pc = "hm_poll" ->
              /\ poll_status("hm_home", result)
              /\ num_joints' = IF linkOk THEN HomeNumJoints(Snapshot) ELSE num_joints
              /\ UNCHANGED <<mvars, joint_index>>
         [] pc = "hm_home" ->
              /\ HomeJoint(joint_index)
              /\ log' = Append(log, HomeCall(joint_index))
              /\ IF joint_index + 1 < num_joints
                 THEN /\ joint_index' = joint_index + 1
                      /\ UNCHANGED <<pc, num_joints, result>>
                 ELSE /\ joint_index' = 0
                      /\ pc' = IF op.wait THEN "wh_poll" ELSE "idle"
                      /\ num_joints' = IF op.wait THEN num_joints ELSE 0
                      /\ result' = IF op.wait THEN result ELSE Outcome("ok")
              /\ UNCHANGED <<status, attempt>>
    /\ UNCHANGED <<op, gcode, mdi_text>>
    /\ Record

(* a homing wait that is given up when the machine is found not ON *)
wait_for_homing_complete_cancellable ==
    /\ pc = "wh_poll"
    /\ poll_status(IF HomingComplete(Snapshot, num_joints) \/ Snapshot.task # "ON"
                   THEN "idle" ELSE "wh_poll",
                   IF HomingComplete(Snapshot, num_joints) THEN Outcome("ok")
                   ELSE IF Snapshot.task # "ON" THEN Outcome("EStopActive")
                   ELSE result)
    /\ num_joints' = IF pc' = "idle" THEN 0 ELSE num_joints
    /\ UNCHANGED <<mvars, op, joint_index, gcode, mdi_text>>
    /\ Record

(* _wait_for_homing_complete *)
wait_for_homing_complete ==
    /\ pc = "wh_poll"
    /\ poll_status(IF HomingComplete(Snapshot, num_joints) THEN "idle" ELSE "wh_poll",
                   IF HomingComplete(Snapshot, num_joints) THEN Outcome("ok") ELSE result)
    /\ num_joints' = IF pc' = "idle" THEN 0 ELSE num_joints
    /\ UNCHANGED <<mvars, op, joint_index, gcode, mdi_text>>
    /\ Record

(* A handler that is one state transition and its acknowledgement *)
StateAndAck(first, second, target, took) ==
    /\ IF pc = first
       THEN /\ Call("state " \o target, second)
            /\ UNCHANGED <<mvars, result>>
       ELSE /\ AckState(target, took)
            /\ Call("wait_complete", "idle")
            /\ result' = Outcome("ok")
    /\ UNCHANGED <<status, op, attempt, num_joints, joint_index, gcode, mdi_text>>
    /\ Record

(* emergency_stop, reached through CNCService.trigger_emergency_stop *)
emergency_stop(took) ==
    /\ pc \in {"es_state", "es_wc"}
    /\ StateAndAck("es_state", "es_wc", "ESTOP", took)

(* reset_emergency_stop *)
reset_emergency_stop(took) ==
    /\ pc \in {"rs_state", "rs_wc"}
    /\ StateAndAck("rs_state", "rs_wc", "ESTOP_RESET", took)

(* machine_off, reached through CNCService.set_machine_power(on=False) *)
machine_off(took) ==
    /\ pc \in {"off_state", "off_wc"}
    /\ StateAndAck("off_state", "off_wc", "OFF", took)

(* a machine_on without its e-stop check *)
PowerOnNeverRefused(s) == FALSE

(* a machine_on that refuses whenever the machine is not on yet *)
PowerOnRefusedUnlessOn(s) == s.task # "ON"

(* machine_on: the explicit e-stop check *)
PowerOnRefused(s) == s.task = "ESTOP"

(* machine_on, reached through CNCService.set_machine_power(on=True) *)
machine_on(took) ==
    /\ pc \in {"on_poll", "on_state", "on_wc"}
    /\ IF pc = "on_poll"
       THEN /\ poll_status(IF PowerOnRefused(Snapshot) THEN "idle" ELSE "on_state",
                           IF PowerOnRefused(Snapshot) THEN Outcome("EStopActive")
                           ELSE result)
            /\ UNCHANGED <<mvars, op, num_joints, joint_index, gcode, mdi_text>>
            /\ Record
       ELSE StateAndAck("on_state", "on_wc", "ON", took)

(* a position query that also empties the error queue *)
get_current_position_draining ==
    /\ pc \in {"gp_poll", "gs_poll2"}
    /\ poll_status("idle", Outcome("ok"))
    /\ drain_error_messages
    /\ UNCHANGED <<mTask, mInterp, mRunOwn, mHomed, mMask, linkOk>>
    /\ UNCHANGED <<op, num_joints, joint_index, gcode, mdi_text>>
    /\ Record

(* get_current_position, also as the tail of get_machine_status *)
get_current_position ==
    /\ pc \in {"gp_poll", "gs_poll2"}
    /\ poll_status("idle", Outcome("ok"))
    /\ UNCHANGED <<mvars, op, num_joints, joint_index, gcode, mdi_text>>
    /\ Record

(* get_machine_status: its own poll, then get_current_position *)
get_machine_status ==
    /\ pc = "gs_poll"
    /\ poll_status("gs_poll2", result)
    /\ UNCHANGED <<mvars, op, num_joints, joint_index, gcode, mdi_text>>
    /\ Record

----------------------------------------------------------------------------
(* The route handlers.  They are coroutines (async def) that call the        *)
(* blocking service without awaiting anything, so the event loop runs one     *)
(* handler from its first statement to its return before it starts another.   *)

(* an e-stop handler that enters through the gated power-on path *)
EntryEstopGated(kind) ==
    CASE kind = "move" -> "mv_drain"
      [] kind = "home" -> "eo_poll"
      [] kind = "set_power_on" -> "on_poll"
      [] kind = "set_power_off" -> "off_state"
      [] kind = "trigger_estop" -> "on_poll"
      [] kind = "reset_estop" -> "rs_state"
      [] kind = "get_position" -> "gp_poll"
      [] kind = "get_status" -> "gs_poll"

(* a power-off that goes through the checks of power-on *)
EntryOffGated(kind) ==
    CASE kind = "move" -> "mv_drain"
      [] kind = "home" -> "eo_poll"
      [] kind = "set_power_on" -> "on_poll"
      [] kind = "set_power_off" -> "on_poll"
      [] kind = "trigger_estop" -> "es_state"
      [] kind = "reset_estop" -> "rs_state"
      [] kind = "get_position" -> "gp_poll"
      [] kind = "get_status" -> "gs_poll"

Entry(kind) ==
    CASE kind = "move" -> "mv_drain"
      [] kind = "home" -> "eo_poll"
      [] kind = "set_power_on" -> "on_poll"
      [] kind = "set_power_off" -> "off_state"
      [] kind = "trigger_estop" -> "es_state"
      [] kind = "reset_estop" -> "rs_state"
      [] kind = "get_position" -> "gp_poll"
      [] kind = "get_status" -> "gs_poll"

(* handlers that run in worker threads, started whatever another one does *)
LoopFreeAlways == TRUE

(* the event loop may start a handler *)
LoopFree == pc = "idle"

Stale(q) == [i \in DOMAIN q |-> [q[i] EXCEPT !.own = FALSE]]

Begin(req) ==
    /\ LoopFree
    /\ op' = req
    /\ pc' = Entry(req.kind)
    /\ log' = <<>>
    /\ result' = NoResult
    /\ mErr' = Stale(mErr)
    /\ mRunOwn' = FALSE
    /\ UNCHANGED <<mTask, mInterp, mHomed, mMask, linkOk>>
    /\ UNCHANGED <<status, attempt, num_joints, joint_index, gcode>>
    /\ mdi_text' = <<>>

(* a request whose body fails validation is answered without its handler     *)
(* being called (the InvalidParameter rejection, HTTP 422)                    *)
Reject(req) ==
    /\ LoopFree
    /\ op' = req
    /\ log' = <<>>
    /\ result' = Outcome("InvalidParameter")
    /\ mdi_text' = <<>>
    /\ UNCHANGED <<mvars, status, pc, attempt, num_joints, joint_index, gcode>>

(* move_absolute, move_relative, home_machine, machine_power, get_position,   *)
(* get_machine_status and emergency_stop(reset=True) of the routes            *)
Handle(req) ==
    /\ ~script.on
    /\ IF RequestValid(req) THEN Begin(req) ELSE Reject(req)
    /\ UNCHANGED svars

(* the e-stop request reaches the server *)
ArriveEstop ==
    /\ ~script.on
    /\ ~pendingEstop
    /\ pendingEstop' = TRUE
    /\ UNCHANGED <<mvars, cvars, script, outcomes, dvars>>

(* emergency_stop(reset=False) of the routes *)
HandleEstop ==
    /\ pendingEstop
    /\ Begin(EstopRequest)
    /\ pendingEstop' = FALSE
    /\ UNCHANGED <<script, outcomes, dvars>>

(* the next request of a scripted client *)
HandleScripted ==
    /\ script.on
    /\ script.todo # <<>>
    /\ Begin(Head(script.todo))
    /\ script' = [script EXCEPT !.todo = Tail(script.todo)]
    /\ UNCHANGED <<pendingEstop, outcomes, dvars>>

----------------------------------------------------------------------------
(* The service dependency.  get_cnc_service is a plain function (def), which   *)
(* the framework calls in a worker thread of its pool for every request that   *)
(* declares Depends(get_cnc_service); the calls of requests that arrive        *)
(* together run in different threads and interleave statement by statement.    *)

Clients == 1..MaxClients

NotCalled == [pc |-> "none", inst |-> 0, got |-> 0]

Returned(inst) == [pc |-> "done", inst |-> 0, got |-> inst]

(* a request arrives and its dependency is submitted to the thread pool *)
Depends(i) ==
    /\ dep[i].pc = "none"
    /\ dep' = [dep EXCEPT ![i].pc = "check"]
    /\ UNCHANGED <<cnc_service, controllers>>
    /\ UNCHANGED <<mvars, cvars, pendingEstop, script, outcomes>>

(* CNCService.__init__, which constructs the CNCController and with it the    *)
(* command, status and error channels; built is FALSE when the constructor    *)
(* raises LinuxCNCConnectionException                                         *)
CNCService(i, built) ==
    IF built
    THEN /\ controllers' = controllers + 1
         /\ dep' = [dep EXCEPT ![i].pc = "assign", ![i].inst = controllers + 1]
    ELSE /\ dep' = [dep EXCEPT ![i].pc = "failed"]
         /\ UNCHANGED controllers

(* get_cnc_service, one statement of one thread per step *)
get_cnc_service(i, built) ==
    /\ dep[i].pc \in {"check", "construct", "assign", "return"}
    /\ CASE dep[i].pc = "check" ->
              /\ dep' = [dep EXCEPT ![i].pc = IF cnc_service = 0 THEN "construct"
                                              ELSE "return"]
              /\ UNCHANGED <<cnc_service, controllers>>
         [] dep[i].pc = "construct" ->
              /\ CNCService(i, built)
              /\ UNCHANGED cnc_service
         [] dep[i].pc = "assign" ->
              /\ cnc_service' = dep[i].inst
              /\ dep' = [dep EXCEPT ![i].pc = "return"]
              /\ UNCHANGED controllers
         [] dep[i].pc = "return" ->
              /\ dep' = [dep EXCEPT ![i] = Returned(cnc_service)]
              /\ UNCHANGED <<cnc_service, controllers>>
    /\ UNCHANGED <<mvars, cvars, pendingEstop, script, outcomes>>

----------------------------------------------------------------------------
(* The machine on its own *)

(* the interpreter finishes the running command, with or without an error *)
InterpFinishes(withError, code) ==
    /\ mInterp = "RUNNING"
    /\ mInterp' = "IDLE"
    /\ mRunOwn' = FALSE
    /\ mErr' = IF withError /\ Len(mErr) < MaxErrors
               THEN Append(mErr, [own |-> mRunOwn, code |-> code])
               ELSE mErr
    /\ UNCHANGED <<mTask, mHomed, mMask, linkOk>>
    /\ UNCHANGED <<cvars, svars>>

(* a joint reaches its home switch *)
JointHomed(j) ==
    /\ mTask = "ON"
    /\ mHomed.kind = "seq"
    /\ j \in DOMAIN mHomed.flags
    /\ ~mHomed.flags[j]
    /\ mHomed' = [mHomed EXCEPT !.flags[j] = TRUE]
    /\ UNCHANGED <<mTask, mInterp, mRunOwn, mMask, mErr, linkOk>>
    /\ UNCHANGED <<cvars, svars>>

(* the external e-stop input trips *)
ExternalEstop ==
    /\ mTask # "ESTOP"
    /\ mTask' = "ESTOP"
    /\ mInterp' = "IDLE"
    /\ mRunOwn' = FALSE
    /\ UNCHANGED <<mHomed, mMask, mErr, linkOk>>
    /\ UNCHANGED <<cvars, svars>>

(* the status channel goes away or comes back *)
LinkChanges ==
    /\ linkOk' = ~linkOk
    /\ UNCHANGED <<mTask, mInterp, mRunOwn, mHomed, mMask, mErr>>
    /\ UNCHANGED <<cvars, svars>>

----------------------------------------------------------------------------
(* Specifications *)

Masks == {[has |-> TRUE, v |-> 3]}

InitController ==
    /\ status = Unpolled
    /\ pc = "idle"
    /\ op = NoRequest
    /\ attempt = 0
    /\ num_joints = 0
    /\ joint_index = 0
    /\ gcode = <<>>
    /\ mdi_text = <<>>
    /\ result = NoResult
    /\ log = <<>>
    /\ pendingEstop = FALSE
    /\ outcomes = <<>>

(* the service exists: an earlier request has created it *)
Serving ==
    /\ cnc_service = 1
    /\ controllers = 1
    /\ dep = [i \in Clients |-> Returned(1)]

Init ==
    /\ mTask \in TaskStates
    /\ mInterp = "IDLE"
    /\ mRunOwn = FALSE
    /\ mHomed \in {[kind |-> "seq", flags |-> f] : f \in [1..HomedLen -> BOOLEAN]}
    /\ mMask \in Masks
    /\ mErr = <<>>
    /\ linkOk = TRUE
    /\ script = [on |-> FALSE, todo |-> <<>>]
    /\ InitController
    /\ Serving

Requests == MoveRequests \cup HomeRequests \cup OtherRequests

Next ==
    \/ \E r \in Requests : Handle(r)
    \/ ArriveEstop
    \/ HandleEstop
    \/ execute_move
    \/ \E took \in BOOLEAN : ensure_machine_on(took)
    \/ verify_machine_homed
    \/ switch_to_mdi_mode
    \/ \E o \in {"run", "done", "reject"}, c \in ErrCodes : execute_mdi_command(o, c)
    \/ wait_for_interpreter_idle
    \/ home_all_axes
    \/ wait_for_homing_complete
    \/ \E took \in BOOLEAN : emergency_stop(took)
    \/ \E took \in BOOLEAN : reset_emergency_stop(took)
    \/ \E took \in BOOLEAN : machine_on(took)
    \/ \E took \in BOOLEAN : machine_off(took)
    \/ get_current_position
    \/ get_machine_status
    \/ \E e \in BOOLEAN, c \in ErrCodes : InterpFinishes(e, c)
    \/ \E j \in 1..HomedLen : JointHomed(j)
    \/ ExternalEstop
    \/ LinkChanges

Spec == Init /\ [][Next]_vars

(* Machines of every shape the status object can have (homed absent, not a   *)
(* sequence, or a list of any length; axis_mask absent or any value), moved   *)
(* and homed through a link that stays up.                                    *)
WideHomed ==
    {[kind |-> k, flags |-> <<>>] : k \in {"absent", "other"}}
    \cup {[kind |-> "seq", flags |-> f] :
             f \in UNION {[1..n -> BOOLEAN] : n \in 0..MaxWideLen}}

WideMasks == {[has |-> FALSE, v |-> 0]} \cup {[has |-> TRUE, v |-> m] : m \in 0..MaxMask}

InitGate ==
    /\ mTask \in TaskStates
    /\ mInterp = "IDLE"
    /\ mRunOwn = FALSE
    /\ mHomed \in WideHomed
    /\ mMask \in WideMasks
    /\ mErr = <<>>
    /\ linkOk = TRUE
    /\ script = [on |-> FALSE, todo |-> <<>>]
    /\ InitController
    /\ Serving

NextGate ==
    \/ \E r \in MoveRequests \cup HomeRequests : Handle(r)
    \/ execute_move
    \/ \E took \in BOOLEAN : ensure_machine_on(took)
    \/ verify_machine_homed
    \/ switch_to_mdi_mode
    \/ \E o \in {"run", "done", "reject"}, c \in ErrCodes : execute_mdi_command(o, c)
    \/ wait_for_interpreter_idle
    \/ home_all_axes
    \/ wait_for_homing_complete
    \/ \E e \in BOOLEAN, c \in ErrCodes : InterpFinishes(e, c)
    \/ \E j \in 1..MaxWideLen : JointHomed(j)

SpecGate == InitGate /\ [][NextGate]_vars

(* Scenario D: a client that finds the machine in e-stop and sends, in order, *)
(* power on, e-stop, e-stop reset, power on, to a machine that acts on every  *)
(* command and is reachable throughout.                                       *)
ScenarioD ==
    <<Plain("set_power_on"), EstopRequest, Plain("reset_estop"), Plain("set_power_on")>>

InitD ==
    /\ mTask = "ESTOP"
    /\ mInterp = "IDLE"
    /\ mRunOwn = FALSE
    /\ mHomed \in WideHomed
    /\ mMask \in WideMasks
    /\ mErr = <<>>
    /\ linkOk = TRUE
    /\ script = [on |-> TRUE, todo |-> ScenarioD]
    /\ InitController
    /\ Serving

NextD ==
    \/ HandleScripted
    \/ machine_on(TRUE)
    \/ emergency_stop(TRUE)
    \/ reset_emergency_stop(TRUE)

SpecD == InitD /\ [][NextD]_vars

(* Moves of every shape, valid or not, sent to a machine whose joints are     *)
(* homed and whose link stays up.                                             *)
InitMove ==
    /\ mTask \in TaskStates
    /\ mInterp = "IDLE"
    /\ mRunOwn = FALSE
    /\ mHomed = [kind |-> "seq", flags |-> [i \in 1..HomedLen |-> TRUE]]
    /\ mMask \in Masks
    /\ mErr = <<>>
    /\ linkOk = TRUE
    /\ script = [on |-> FALSE, todo |-> <<>>]
    /\ InitController
    /\ Serving

NextMove ==
    \/ \E r \in WideMoveRequests : Handle(r)
    \/ execute_move
    \/ \E took \in BOOLEAN : ensure_machine_on(took)
    \/ verify_machine_homed
    \/ switch_to_mdi_mode
    \/ \E o \in {"run", "done", "reject"}, c \in ErrCodes : execute_mdi_command(o, c)
    \/ wait_for_interpreter_idle
    \/ \E e \in BOOLEAN, c \in ErrCodes : InterpFinishes(e, c)

SpecMove == InitMove /\ [][NextMove]_vars

(* The start of the process: no service yet, and requests that arrive in any  *)
(* number up to MaxClients and in any interleaving.                           *)
InitDep ==
    /\ mTask = "OFF"
    /\ mInterp = "IDLE"
    /\ mRunOwn = FALSE
    /\ mHomed = [kind |-> "seq", flags |-> [i \in 1..HomedLen |-> FALSE]]
    /\ mMask \in Masks
    /\ mErr = <<>>
    /\ linkOk = TRUE
    /\ script = [on |-> FALSE, todo |-> <<>>]
    /\ InitController
    /\ cnc_service = 0
    /\ controllers = 0
    /\ dep = [i \in Clients |-> NotCalled]

NextDep ==
    \/ \E i \in Clients : Depends(i)
    \/ \E i \in Clients, built \in BOOLEAN : get_cnc_service(i, built)

SpecDep == InitDep /\ [][NextDep]_vars

(* Moves and homings that wait for completion, with the machine moving on    *)
(* its own; a running handler keeps taking its steps (the thread is never     *)
(* suspended for good), the machine and the clients owe nothing.              *)
WaitingRequests ==
    {Req("move", TRUE, FALSE, TRUE, <<10>>, NoneVal, NoneVal),
     Req("home", FALSE, FALSE, TRUE, NoneVal, NoneVal, NoneVal)}

ControllerStep ==
    \/ execute_move
    \/ \E took \in BOOLEAN : ensure_machine_on(took)
    \/ verify_machine_homed
    \/ switch_to_mdi_mode
    \/ \E o \in {"run", "done", "reject"}, c \in ErrCodes : execute_mdi_command(o, c)
    \/ wait_for_interpreter_idle
    \/ home_all_axes
    \/ wait_for_homing_complete

NextLive ==
    \/ \E r \in WaitingRequests : Handle(r)
    \/ ControllerStep
    \/ \E e \in BOOLEAN, c \in ErrCodes : InterpFinishes(e, c)
    \/ \E j \in 1..HomedLen : JointHomed(j)
    \/ ExternalEstop
    \/ LinkChanges

SpecLive == Init /\ [][NextLive]_vars /\ WF_vars(ControllerStep)

----------------------------------------------------------------------------
(* Properties *)

Dispatched(entry) == \E i \in DOMAIN log : log[i] = entry

Position(entry) == CHOOSE i \in DOMAIN log : log[i] = entry

SetBits(m) == Cardinality({b \in 0..8 : (m \div (2 ^ b)) % 2 = 1})

(* the configured joint count as the specification states it *)
JointCount(s) == IF s.mask.has /\ s.mask.v > 0 THEN SetBits(s.mask.v) ELSE 3

(* how many of the first n homed flags of a snapshot are true *)
TrueAmongFirst(s, n) ==
    Cardinality({i \in 1..n : /\ s.homed.kind = "seq"
                              /\ i \in DOMAIN s.homed.flags
                              /\ s.homed.flags[i]})

(* a controller step, as opposed to a step of the machine *)
ControllerActs == cvars' # cvars

(* C1: a move whose homed check polls a snapshot in which not all of the      *)
(* first N homed flags are true (N the configured joint count) ends there     *)
(* with NotHomed, and the call has dispatched neither mode MDI nor an MDI     *)
(* command.                                                                   *)
C1_NotHomedBlocksMove ==
    [][(pc = "vh_poll" /\ linkOk /\ ControllerActs
        /\ TrueAmongFirst(Snapshot, JointCount(Snapshot)) < JointCount(Snapshot))
       => /\ pc' = "idle"
          /\ result'.kind = "NotHomed"
          /\ \A i \in DOMAIN log' : log'[i] \notin {"mode MDI", "mdi"}
          /\ mdi_text' = <<>>]_vars

C1_Witness ==
    /\ op.kind = "move"
    /\ pc = "idle"
    /\ result.kind = "NotHomed"
    /\ status.homed.flags = <<TRUE, FALSE, TRUE>>
    /\ JointCount(status) = 3

(* C2: trigger_estop makes exactly two machine-interface calls, the ESTOP     *)
(* transition and the wait for its acknowledgement, and succeeds; it polls    *)
(* nothing and no machine state (task state, link down) can hold it up.       *)
C2_EstopUnconditional ==
    /\ op.kind = "trigger_estop" /\ pc = "es_state" =>
           log = <<>> /\ ENABLED (\E took \in BOOLEAN : emergency_stop(took))
    /\ op.kind = "trigger_estop" /\ pc = "es_wc" =>
           log = <<"state ESTOP">> /\ ENABLED (\E took \in BOOLEAN : emergency_stop(took))
    /\ op.kind = "trigger_estop" =>
           /\ pc \in {"es_state", "es_wc", "idle"}
           /\ pc = "idle" => log = <<"state ESTOP", "wait_complete">> /\ result.kind = "ok"

C2_Witness ==
    /\ op.kind = "trigger_estop"
    /\ pc = "idle"
    /\ result.kind = "ok"
    /\ ~linkOk
    /\ status = Unpolled
    /\ mTask = "ESTOP"

(* C3: while a move or a homing waits for completion, an e-stop request that  *)
(* has arrived can have its handler started (and so its ESTOP dispatched)     *)
(* without the wait having to end first.                                      *)
C3_EstopStartsDuringWait ==
    pendingEstop /\ pc \in WaitPcs => ENABLED HandleEstop

(* C4: set_power(on=true) ends with EStopActive and no dispatch when the      *)
(* polled task state is ESTOP, and with exactly one ON transition and its     *)
(* acknowledgement when it is not.                                            *)
C4_PowerOnGate ==
    /\ op.kind = "set_power_on" /\ pc \in {"on_state", "on_wc"} => status.task # "ESTOP"
    /\ op.kind = "set_power_on" /\ pc = "idle" /\ result.kind # "Connection" =>
           IF status.task = "ESTOP"
           THEN result.kind = "EStopActive" /\ log = <<"poll">>
           ELSE result.kind = "ok" /\ log = <<"poll", "state ON", "wait_complete">>

C4_Witness ==
    /\ op.kind = "set_power_on"
    /\ pc = "idle"
    /\ result.kind = "EStopActive"
    /\ log = <<"poll">>

(* C5: from task state ESTOP, power on fails with EStopActive, then e-stop     *)
(* succeeds, e-stop reset succeeds, and the second power on succeeds after    *)
(* dispatching the ON transition.                                             *)
C5_ScenarioD ==
    /\ \A k \in DOMAIN outcomes : outcomes[k] = <<"EStopActive", "ok", "ok", "ok">>[k]
    /\ Len(outcomes) = 4 =>
           /\ op.kind = "set_power_on"
           /\ log = <<"poll", "state ON", "wait_complete">>
           /\ mTask = "ON"

C5_Witness == script.on /\ Len(outcomes) = 4 /\ pc = "idle"

(* the snapshots that differ from s only in homed flags at index n or higher *)
SameFirst(s, n) ==
    IF s.homed.kind # "seq" THEN {s}
    ELSE {[s EXCEPT !.homed.flags = f] :
             f \in {g \in [DOMAIN s.homed.flags -> BOOLEAN] :
                       \A i \in DOMAIN g : i <= n => g[i] = s.homed.flags[i]}}

(* C6: the homed check of a move fails exactly when fewer than N of the       *)
(* first N homed flags of its snapshot are true, N being the number of set    *)
(* bits of the axis mask (3 for a mask that is zero or absent), and flags at  *)
(* index N or higher do not change what it decides.                           *)
C6_HomedCheckCountsFirstN ==
    LET n == JointCount(status)
        passed == op.kind = "move" /\ pc = "md_mode"
        failed == op.kind = "move" /\ pc = "idle" /\ result.kind = "NotHomed"
    IN  /\ passed => TrueAmongFirst(status, n) = n
        /\ failed => TrueAmongFirst(status, n) < n
        /\ passed \/ failed =>
               \A t \in SameFirst(status, n) : HomedCheckPasses(t) = HomedCheckPasses(status)

C6_Witness ==
    /\ op.kind = "move"
    /\ pc = "md_mode"
    /\ status.mask = [has |-> TRUE, v |-> 5]
    /\ status.homed.flags = <<TRUE, TRUE, FALSE>>

PollAttemptAsSpecified ==
    pc \in PollPcs /\ ControllerActs =>
        /\ linkOk => /\ status' = Snapshot
                     /\ attempt' = 0
                     /\ result'.kind # "Connection"
        /\ ~linkOk /\ attempt < 2 => /\ attempt' = attempt + 1
                                     /\ UNCHANGED <<pc, status, result, log>>
        /\ ~linkOk /\ attempt = 2 => /\ result' = Outcome("Connection")
                                     /\ pc' = "idle"
                                     /\ status' = status

(* C7: a status refresh makes at most 3 attempts; an attempt that succeeds    *)
(* ends it with that attempt's snapshot, a failed first or second attempt is  *)
(* followed by another attempt, and a failed third attempt ends the operation *)
(* with a Connection error.                                                   *)
C7_PollRetries == [](attempt \in 0..2) /\ [][PollAttemptAsSpecified]_vars

C7_Witness == pc = "vh_poll" /\ attempt = 2 /\ linkOk /\ status.task = "ON"

(* C8: a refresh that fails after its retries is the last machine-interface   *)
(* call of the operation, which ends with a Connection error that carries     *)
(* nothing read from the snapshot.                                            *)
C8_FailedRefreshAborts ==
    /\ \A i \in DOMAIN log : log[i] = "poll_failed" =>
           /\ i = Len(log)
           /\ pc = "idle"
           /\ result = Outcome("Connection")
    /\ result.kind = "Connection" =>
           /\ log # <<>> /\ Last(log) = "poll_failed"
           /\ op.kind \in {"move", "home", "set_power_on", "get_position", "get_status"}

C8_Witness ==
    /\ op.kind = "move"
    /\ result.kind = "Connection"
    /\ Dispatched("mdi")
    /\ Last(log) = "poll_failed"

(* C9: the error a move fails with was caused by the command that this move   *)
(* dispatched.                                                                *)
C9_OwnErrorsOnly ==
    op.kind = "move" /\ result.kind = "Motion" => result.err[1].own

DrainsAfterMdi ==
    Cardinality({i \in DOMAIN log : log[i] = "drain" /\ i > Position("mdi")})

(* C10 as claimed: every move that has dispatched its MDI command drains the  *)
(* error queue exactly once after the dispatch and ends ok or with Motion.    *)
C10_DrainExactlyOnce ==
    op.kind = "move" /\ pc = "idle" /\ Dispatched("mdi") =>
        DrainsAfterMdi = 1 /\ result.kind \in {"ok", "Motion"}

DrainedOrAborted ==
    op.kind = "move" /\ Dispatched("mdi") =>
        /\ DrainsAfterMdi <= 1
        /\ pc = "idle" =>
               IF result.kind = "Connection" THEN op.wait /\ DrainsAfterMdi = 0
               ELSE DrainsAfterMdi = 1 /\ result.kind \in {"ok", "Motion"}

FinalDrainAsSpecified ==
    pc = "md_drain" /\ ControllerActs =>
        /\ pc' = "idle"
        /\ mErr' = <<>>
        /\ result'.kind = "Motion" <=> mErr # <<>>
        /\ mErr # <<>> => result'.err = <<Head(mErr)>>
        /\ mErr = <<>> => result'.kind = "ok"
        /\ result'.gcode = Last(mdi_text)

(* C10, amended: after the MDI dispatch the queue is drained at most once,    *)
(* and exactly once unless the interpreter-idle wait of a wait=true move ends *)
(* with a Connection error (then no drain follows the dispatch); the drain    *)
(* empties the queue, the move fails with Motion iff the drain returned an    *)
(* error, and the failure carries the first drained error and the dispatched  *)
(* text.                                                                      *)
C10_DrainAfterDispatch == []DrainedOrAborted /\ [][FinalDrainAsSpecified]_vars

C10_Witness ==
    /\ op.kind = "move"
    /\ ~op.wait
    /\ pc = "idle"
    /\ result.kind = "Motion"
    /\ ~result.err[1].own
    /\ mErr = <<>>

EndsWith(s, t) == Len(s) >= Len(t) /\ SubSeq(s, Len(s) - Len(t) + 1, Len(s)) = t

(* C11: a move with wait=true returns, or fails with Motion, only after a     *)
(* status poll that followed the acknowledgement of its MDI dispatch reported *)
(* the interpreter IDLE; a move with wait=false polls nothing after the       *)
(* dispatch and ends after the acknowledgement and the one error drain.       *)
C11_WaitPollsUntilIdle ==
    /\ op.kind = "move" /\ op.wait /\ pc = "md_drain" =>
           /\ EndsWith(log, <<"mdi", "wait_complete", "poll">>)
           /\ status.interp = "IDLE"
    /\ op.kind = "move" /\ pc = "idle" /\ result.kind \in {"ok", "Motion"} =>
           IF op.wait
           THEN /\ EndsWith(log, <<"mdi", "wait_complete", "poll", "drain">>)
                /\ status.interp = "IDLE"
           ELSE EndsWith(log, <<"poll", "mode MDI", "wait_complete",
                                "mdi", "wait_complete", "drain">>)

C11_Witness ==
    /\ op.kind = "move"
    /\ op.wait
    /\ pc = "idle"
    /\ result.kind = "Motion"
    /\ result.err[1].own
    /\ status.interp = "IDLE"

HomeCalls == {"home 0", "home 1", "home 2", "home 3", "home 4"}

(* the home requests for the joints 0 .. n-1, in that order *)
HomeLog(n) == [j \in 1..n |-> <<"home 0", "home 1", "home 2", "home 3", "home 4">>[j]]

(* the number of home requests the operation has issued *)
HomesIssued == Cardinality({i \in DOMAIN log : log[i] \in HomeCalls})

Letters(g) == [i \in DOMAIN g |-> g[i].letter]

(* the word of a command that carries the given letter, G words aside *)
WordsOf(g, letter) == {i \in DOMAIN g : i > 3 /\ g[i].letter = letter}

(* the optional words a request asks for, in the fixed order X, Y, Z, feed *)
OptionalLetters(r) ==
    LET Wanted(l) == CASE l = "X" -> r.x # NoneVal
                       [] l = "Y" -> r.y # NoneVal
                       [] l = "Z" -> r.z # NoneVal
                       [] l = "F" -> ~r.rapid
    IN  SelectSeq(<<"X", "Y", "Z", "F">>, Wanted)

(* C13: the command built for a move is exactly G21; G90 if absolute else     *)
(* G91; G0 if rapid else G1; an X, a Y, a Z word iff that axis was supplied;  *)
(* an F word iff rapid is false; in that order and with no other word.        *)
C13_WordSequence ==
    \A k \in DOMAIN mdi_text :
        LET g == mdi_text[k] IN
        /\ Letters(g) = <<"G", "G", "G">> \o OptionalLetters(op)
        /\ g[1].val = 21
        /\ g[2].val = IF op.absolute THEN 90 ELSE 91
        /\ g[3].val = IF op.rapid THEN 0 ELSE 1
        /\ \A i \in WordsOf(g, "X") : g[i].val = op.x[1] * 10000
        /\ \A i \in WordsOf(g, "Y") : g[i].val = op.y[1] * 10000
        /\ \A i \in WordsOf(g, "Z") : g[i].val = op.z[1] * 10000
        /\ \A i \in WordsOf(g, "F") : g[i].val = op.feed * 10000

C13_Witness ==
    /\ op.kind = "move"
    /\ op.rapid
    /\ ~op.absolute
    /\ op.x = NoneVal
    /\ op.feed = min_feed_rate
    /\ mdi_text = << <<Word("G", 21), Word("G", 91), Word("G", 0),
                       Word("Y", -50000), Word("Z", 0)>> >>

(* the number of times the operation has made the given call *)
Calls(entry) == Cardinality({i \in DOMAIN log : log[i] = entry})

(* C14: a move dispatches at most one MDI command: exactly one once it has    *)
(* passed ensure-on, the homed check and the MDI mode switch, none when it    *)
(* fails before; a successful move returns exactly the text it dispatched.    *)
C14_OneCommandReturned ==
    op.kind = "move" =>
        /\ Len(mdi_text) <= 1
        /\ Calls("mdi") = Len(mdi_text)
        /\ pc = "idle" =>
               /\ Len(mdi_text) = Calls("mode MDI")
               /\ result.kind = "ok" => Len(mdi_text) = 1 /\ result.gcode = mdi_text[1]
               /\ result.kind \in {"NotHomed", "InvalidParameter"} => mdi_text = <<>>

C14_Witness ==
    /\ op.kind = "move"
    /\ op.absolute
    /\ pc = "idle"
    /\ result.kind = "ok"
    /\ Len(mdi_text) = 1
    /\ result.gcode = <<Word("G", 21), Word("G", 90), Word("G", 1),
                        Word("X", 100000), Word("F", 10000000)>>

QueryPolls ==
    op.kind \in {"get_position", "get_status"} =>
        \A i \in DOMAIN log : log[i] \in {"poll", "poll_failed"}

QueryStepFrame ==
    op.kind \in {"get_position", "get_status"} /\ pc # "idle" /\ ControllerActs =>
        /\ UNCHANGED mvars
        /\ UNCHANGED <<op, num_joints, joint_index, gcode, mdi_text>>

(* C15: get_position and get_status make no call on the machine interface     *)
(* other than status polls: no state transition, mode change, MDI command or  *)
(* home request, and nothing is taken from the error queue; a step of theirs  *)
(* leaves the machine as it is and changes only the cached snapshot.          *)
C15_QueriesOnlyPoll == []QueryPolls /\ [][QueryStepFrame]_vars

C15_Witness ==
    /\ op.kind = "get_status"
    /\ pc = "idle"
    /\ result.kind = "ok"
    /\ log = <<"poll", "poll">>
    /\ mErr # <<>>
    /\ status.task = "ON"

(* C16: set_power(on=false) makes exactly two machine-interface calls, the    *)
(* OFF transition and the wait for its acknowledgement, and succeeds; it      *)
(* polls and checks nothing, whatever the task state and the state of the     *)
(* link.                                                                      *)
C16_PowerOffUnconditional ==
    /\ op.kind = "set_power_off" /\ pc = "off_state" =>
           log = <<>> /\ ENABLED (\E took \in BOOLEAN : machine_off(took))
    /\ op.kind = "set_power_off" /\ pc = "off_wc" =>
           log = <<"state OFF">> /\ ENABLED (\E took \in BOOLEAN : machine_off(took))
    /\ op.kind = "set_power_off" =>
           /\ pc \in {"off_state", "off_wc", "idle"}
           /\ pc = "idle" => log = <<"state OFF", "wait_complete">> /\ result.kind = "ok"

C16_Witness ==
    /\ op.kind = "set_power_off"
    /\ pc = "idle"
    /\ result.kind = "ok"
    /\ log = <<"state OFF", "wait_complete">>
    /\ ~linkOk
    /\ mTask = "ESTOP"

(* a caller-supplied value outside the policy: a coordinate outside           *)
(* -10000 .. 10000 or a feed rate outside 1 .. 10000                          *)
OutOfPolicy(r) ==
    \/ r.feed < 1 \/ r.feed > 10000
    \/ \E v \in {r.x, r.y, r.z} : v # NoneVal /\ (v[1] < -10000 \/ v[1] > 10000)

(* C17: a move, absolute or relative, with an out-of-policy value is rejected *)
(* with InvalidParameter before any call on the machine interface.            *)
C17_OutOfPolicyRejected ==
    op.kind = "move" /\ OutOfPolicy(op) =>
        /\ pc = "idle"
        /\ log = <<>>
        /\ result.kind = "InvalidParameter"

(* C18: the process constructs at most one controller, and so at most one     *)
(* connection to the machine interface, for any number and interleaving of    *)
(* requests that obtain the service.                                          *)
C18_OneController == controllers <= 1

(* the step is the first of an operation: it takes up a request, or its calls *)
(* do not continue the calls made so far                                      *)
StartsOperation ==
    \/ op' # op
    \/ /\ log' # log
       /\ ~(Len(log') = Len(log) + 1 /\ SubSeq(log', 1, Len(log)) = log)

OperationsDoNotOverlap == StartsOperation => pc = "idle"

(* C19: at most one operation is in flight on the controller: between the     *)
(* first and the last machine-interface call of an operation no other         *)
(* operation starts or makes a call, whenever further requests arrive.        *)
C19_OneOperationInFlight == [][OperationsDoNotOverlap]_vars

C19_Witness ==
    /\ pendingEstop
    /\ op.kind = "home"
    /\ pc = "hm_home"
    /\ joint_index = 1
    /\ log = <<"poll", "mode MANUAL", "wait_complete", "poll", "home 0">>

IsPrefix(s, t) == Len(s) <= Len(t) /\ SubSeq(t, 1, Len(s)) = s

ButLast(s) == SubSeq(s, 1, Len(s) - 1)

(* the calls of ensure-on: a poll; after a polled ESTOP the reset, its        *)
(* acknowledgement and a re-poll; after a polled state other than ON the ON   *)
(* transition and its acknowledgement                                         *)
EnsureOnCalls ==
    {<<"poll">> \o r \o o :
        r \in {<<>>, <<"state ESTOP_RESET", "wait_complete", "poll">>},
        o \in {<<>>, <<"state ON", "wait_complete">>}}

(* the calls of a complete move, in the order of C20 *)
MoveCalls(wait) ==
    {<<"drain">> \o e
     \o <<"poll", "mode MDI", "wait_complete", "mdi", "wait_complete">>
     \o (IF wait THEN <<"poll">> ELSE <<>>)
     \o <<"drain">> : e \in EnsureOnCalls}

(* the calls made so far follow the order t, up to a status refresh that      *)
(* failed and ended the move                                                  *)
FollowsOrder(l, t, wait) ==
    \/ IsPrefix(l, t)
    \/ /\ l # <<>>
       /\ Last(l) = "poll_failed"
       /\ IsPrefix(ButLast(l), t)
       /\ Len(ButLast(l)) < Len(t)
       /\ \/ t[Len(ButLast(l)) + 1] = "poll"
          \/ wait /\ Len(ButLast(l)) = Len(t) - 1

(* C20: the machine-interface calls of a move occur in the fixed order error  *)
(* drain, ensure-on, homed-check poll, mode MDI and its acknowledgement, MDI  *)
(* dispatch and its acknowledgement, the interpreter-idle wait when wait is   *)
(* true, final error drain; a move that completes has made all of them, and   *)
(* the MDI mode switch and the dispatch happen only after the homed check     *)
(* passed on the snapshot polled in this call.                                *)
C20_MoveStepOrder ==
    op.kind = "move" =>
        /\ \E t \in MoveCalls(op.wait) : FollowsOrder(log, t, op.wait)
        /\ pc = "idle" /\ result.kind \in {"ok", "Motion"} => log \in MoveCalls(op.wait)
        /\ pc \in {"md_mode", "md_mode_wc", "md_mdi", "md_mdi_wc"} =>
               TrueAmongFirst(status, JointCount(status)) = JointCount(status)
        /\ Dispatched("mode MDI") =>
               \E i \in DOMAIN log : /\ log[i] = "poll"
                                      /\ i + 1 \in DOMAIN log
                                      /\ log[i + 1] = "mode MDI"

C20_Witness ==
    /\ op.kind = "move"
    /\ op.wait
    /\ pc = "idle"
    /\ result.kind = "ok"
    /\ log = <<"drain", "poll", "state ESTOP_RESET", "wait_complete", "poll",
               "state ON", "wait_complete", "poll", "mode MDI", "wait_complete",
               "mdi", "wait_complete", "poll", "drain">>

(* the calls of the operation after its first n calls *)
After(n) == SubSeq(log, n + 1, Len(log))

(* C21: the calls of a home occur in the order ensure-on, mode MANUAL and its *)
(* acknowledgement, a status re-poll, then one home request per joint index   *)
(* 0, 1, ..., N-1 in ascending order, N derived from the axis mask of that    *)
(* re-poll; mode MDI is never dispatched, no home request precedes the        *)
(* acknowledgement of MANUAL and none is for an index >= N.                   *)
C21_HomeStepOrder ==
    op.kind = "home" =>
        /\ ~Dispatched("mode MDI")
        /\ ~Dispatched("mdi")
        /\ \E e \in EnsureOnCalls :
               LET head == e \o <<"mode MANUAL", "wait_complete", "poll">>
               IN  \/ IsPrefix(log, head)
                   \/ /\ IsPrefix(head, log)
                      /\ IsPrefix(After(Len(head)),
                                  HomeLog(JointCount(status))
                                  \o (IF op.wait THEN <<"poll">> ELSE <<>>))
        /\ pc = "wh_poll" \/ (pc = "idle" /\ result.kind = "ok") =>
               HomesIssued = JointCount(status)

C21_Witness ==
    /\ op.kind = "home"
    /\ ~op.wait
    /\ pc = "idle"
    /\ result.kind = "ok"
    /\ status.mask = [has |-> TRUE, v |-> 5]
    /\ log = <<"poll", "state ON", "wait_complete", "mode MANUAL", "wait_complete",
               "poll", "home 0", "home 1">>

EnsurePcs == {"eo_poll", "eo_reset", "eo_reset_wc", "eo_repoll", "eo_on", "eo_on_wc"}

EnsureOnNoOp ==
    pc = "eo_poll" /\ linkOk /\ mTask = "ON" /\ ControllerActs =>
        /\ pc' \notin EnsurePcs
        /\ log' = Append(log, "poll")
        /\ status'.task = "ON"
        /\ UNCHANGED mvars

(* C22: when its poll shows task state ON, ensure-on ends with that one poll: *)
(* it dispatches no state transition and leaves the machine as it is.         *)
C22_EnsureOnIdempotent == [][EnsureOnNoOp]_vars

C22_Witness ==
    /\ op.kind = "move"
    /\ pc = "vh_poll"
    /\ log = <<"drain", "poll">>
    /\ status.task = "ON"
    /\ mTask = "ON"

EnsureOnDecides ==
    ControllerActs =>
        /\ pc = "eo_poll" /\ linkOk =>
               pc' = IF mTask = "ESTOP" THEN "eo_reset"
                     ELSE IF mTask = "ON" THEN (IF op.kind = "move" THEN "vh_poll"
                                                ELSE "hm_mode")
                     ELSE "eo_on"
        /\ pc = "eo_reset" => pc' = "eo_reset_wc" /\ log' = Append(log, "state ESTOP_RESET")
        /\ pc = "eo_reset_wc" => pc' = "eo_repoll" /\ log' = Append(log, "wait_complete")
        /\ pc = "eo_repoll" /\ linkOk =>
               /\ log' = Append(log, "poll")
               /\ pc' = IF mTask # "ON" THEN "eo_on"
                        ELSE IF op.kind = "move" THEN "vh_poll" ELSE "hm_mode"
        /\ pc = "eo_on" => pc' = "eo_on_wc" /\ log' = Append(log, "state ON")

EnsureOnAfterReset ==
    /\ pc = "eo_reset" => status.task = "ESTOP"
    /\ pc = "eo_on" =>
           /\ status.task # "ON"
           /\ Dispatched("state ESTOP_RESET") =>
                  EndsWith(log, <<"state ESTOP_RESET", "wait_complete", "poll">>)

(* C23: ensure-on that polls ESTOP dispatches ESTOP-RESET, waits for its      *)
(* acknowledgement and re-polls; it dispatches ON exactly when the latest     *)
(* polled task state is not ON, and after an ESTOP-RESET only once that was   *)
(* acknowledged and the state re-polled.                                      *)
C23_EnsureOnSequence == []EnsureOnAfterReset /\ [][EnsureOnDecides]_vars

C23_Witness ==
    /\ op.kind = "home"
    /\ pc = "hm_mode"
    /\ log = <<"poll", "state ESTOP_RESET", "wait_complete", "poll",
               "state ON", "wait_complete">>
    /\ mTask = "ON"

(* C24: when the re-poll after the acknowledged ESTOP-RESET still shows        *)
(* ESTOP, the move or home ends there with EStopActive.                        *)
C24_UnclearedEstopFails ==
    /\ op.kind \in {"move", "home"}
    /\ status.task = "ESTOP"
    /\ EndsWith(log, <<"state ESTOP_RESET", "wait_complete", "poll">>)
    => pc = "idle" /\ result.kind = "EStopActive"

StateAndModeCalls ==
    {"state ESTOP", "state ESTOP_RESET", "state ON", "state OFF", "mode MDI", "mode MANUAL"}

AwaitsAcknowledgement == log # <<>> /\ Last(log) \in StateAndModeCalls

AcknowledgedNext == AwaitsAcknowledgement /\ log' # log => log' = Append(log, "wait_complete")

(* C25: after every dispatched state transition and mode change the next       *)
(* machine-interface call of the operation is the wait for its                 *)
(* acknowledgement, and the operation does not end before it, in every        *)
(* operation and whatever the wait flag.                                      *)
C25_AlwaysAcknowledged ==
    [](AwaitsAcknowledgement => pc # "idle") /\ [][AcknowledgedNext]_vars

C25_Witness ==
    /\ op.kind = "home"
    /\ ~op.wait
    /\ pc = "hm_poll"
    /\ log = <<"poll", "state ESTOP_RESET", "wait_complete", "poll",
               "state ON", "wait_complete", "mode MANUAL", "wait_complete">>

(* C26: on every snapshot, whatever its axis mask (zero, absent,              *)
(* non-contiguous bits), homing and the homed check derive the same joint     *)
(* count: the number of set bits of the mask, or 3 for a zero or absent mask; *)
(* and that is the count homing issues its home requests with.                *)
C26_SameJointCount ==
    /\ \A m \in WideMasks :
           LET s == [status EXCEPT !.mask = m]
           IN  /\ HomeNumJoints(s) = VerifyNumJoints(s)
               /\ HomeNumJoints(s) = JointCount(s)
    /\ HomeNumJoints(status) = VerifyNumJoints(status)
    /\ op.kind = "home" /\ pc \in {"hm_home", "wh_poll"} =>
           /\ num_joints = VerifyNumJoints(status)
           /\ num_joints = JointCount(status)

C26_Witness ==
    /\ op.kind = "home"
    /\ pc = "hm_home"
    /\ joint_index = 1
    /\ status.mask = [has |-> TRUE, v |-> 5]
    /\ num_joints = 2

(* the homed flags of the machine are absent, are not a sequence, or are      *)
(* fewer than the joint count                                                 *)
HomedDataUnusable ==
    \/ mHomed.kind \in {"absent", "other"}
    \/ mHomed.kind = "seq" /\ Len(mHomed.flags) < JointCount(Snapshot)

HomedCheckFailsClosed ==
    pc = "vh_poll" /\ linkOk /\ ControllerActs /\ HomedDataUnusable =>
        /\ pc' = "idle"
        /\ result'.kind = "NotHomed"
        /\ log' = Append(log, "poll")

(* C27: a homed check that polls a homed-flag list that is absent, not a      *)
(* sequence, or shorter than the joint count N fails with NotHomed, also when *)
(* every entry the list has is true.                                          *)
C27_HomedCheckFailsClosed == [][HomedCheckFailsClosed]_vars

C27_Witness ==
    /\ op.kind = "move"
    /\ pc = "idle"
    /\ result.kind = "NotHomed"
    /\ status.homed = [kind |-> "seq", flags |-> <<TRUE, TRUE>>]
    /\ JointCount(status) = 3

(* the condition a running wait is waiting for holds on the machine *)
Awaited ==
    IF pc = "wi_poll" THEN mInterp = "IDLE"
    ELSE /\ mHomed.kind = "seq"
         /\ mHomed.flags # <<>>
         /\ \A i \in 1..num_joints : i \in DOMAIN mHomed.flags => mHomed.flags[i]

WaitEndsTwoWays ==
    pc \in WaitPcs =>
        /\ pc' # pc =>
               \/ linkOk /\ Awaited /\ result'.kind # "Connection"
               \/ /\ ~linkOk
                  /\ attempt = 2
                  /\ pc' = "idle"
                  /\ result'.kind = "Connection"
        /\ ControllerActs /\ linkOk /\ ~Awaited => pc' = pc /\ attempt' = 0
        /\ ControllerActs /\ ~linkOk /\ attempt < 2 => pc' = pc /\ attempt' = attempt + 1
        /\ op' = op

(* C28: a running interpreter-idle or homing wait ends only when a successful *)
(* poll shows the awaited condition, or when a refresh has failed 3 times in  *)
(* a row, with a Connection error; nothing else ends it (no timeout, no limit *)
(* of iterations, no cancellation by another request), and fewer than 3       *)
(* failures in a row do not end it.                                           *)
C28_WaitEndsTwoWays == [][WaitEndsTwoWays]_vars

C28_Witness ==
    /\ op.kind = "home"
    /\ pc = "wh_poll"
    /\ attempt = 2
    /\ linkOk
    /\ mTask = "ESTOP"
    /\ pendingEstop
    /\ EndsWith(log, <<"home 1", "poll">>)

(* a call that waits for completion is running *)
WaitingCall == pc # "idle" /\ op.kind \in {"move", "home"} /\ op.wait

(* status polls succeed, and a wait finds its awaited condition reported *)
MachineObliges == linkOk /\ (pc \in WaitPcs => Awaited)

(* a homing wait on a machine that is not ON: no joint becomes homed, the     *)
(* machine is not switched on, and only a failed refresh ends the wait        *)
HomingWaitStuck ==
    pc = "wh_poll" /\ mTask # "ON" /\ ~Awaited =>
        /\ mTask' # "ON"
        /\ mHomed' = mHomed
        /\ pc' = pc \/ (~linkOk /\ result'.kind = "Connection")

(* C29: if from some time on status polls succeed and the machine reports the *)
(* awaited condition to every wait, every move(wait=true) and                 *)
(* home(wait=true) call returns; without that the wait may never end: a       *)
(* homing wait on a machine that left ON before its joints were homed stays   *)
(* in its loop for as long as the polls succeed.                              *)
C29_WaitingCallsReturn ==
    /\ <>[]MachineObliges => [](WaitingCall => <>(pc = "idle"))
    /\ [][HomingWaitStuck]_vars

C29_Witness ==
    /\ op.kind = "home"
    /\ op.wait
    /\ pc = "wh_poll"
    /\ mTask = "ESTOP"
    /\ linkOk
    /\ status.task = "ESTOP"
    /\ ~Awaited

(* C30: when a move dispatches its MDI command, the task state of its latest  *)
(* successful status poll is ON.                                              *)
C30_DispatchOnlyWhenOn ==
    op.kind = "move" /\ pc \in {"md_mdi", "md_mdi_wc"} => status.task = "ON"

(* C31: on every polled snapshot, with N its joint count, the exit condition  *)
(* of the homing wait implies that the homed check passes; so the snapshot on *)
(* which home(wait=true) returned is one a move's homed check accepts, lists  *)
(* with fewer than N entries included.                                        *)
C31_HomingImpliesHomedCheck ==
    /\ status # Unpolled /\ HomingComplete(status, JointCount(status)) =>
           HomedCheckPasses(status)
    /\ op.kind = "home" /\ op.wait /\ pc = "idle" /\ result.kind = "ok" =>
           HomedCheckPasses(status)

====
